---- MODULE Spec2Model ----
(***************************************************************************)
(* Steam Metadata Fetcher: the SteamGridDB client, the background scan     *)
(* thread and the main window's handlers, as a state machine.              *)
(*                                                                         *)
(* Python strings the code takes apart (paths, file names, the API key,    *)
(* the query) are sequences of one-character strings; strings the code     *)
(* only passes around are TLA+ strings; an f-string is the tuple of its    *)
(* pieces.  A list element that is a str (the steam/epic placeholders) is  *)
(* the record [str |-> s]; a dict is a record with the dict's keys.        *)
(***************************************************************************)
EXTENDS Integers, Sequences, FiniteSets, TLC

VARIABLES
    api_key,          \* SteamGridDbClient.api_key: None or a string
    requests_log,     \* every requests.get issued so far, in order
    search_log,       \* every search_game call so far: its arguments and result
    threads,          \* every ScanThread started so far, in start order
    scan_thread,      \* MainWindow.scan_thread: index into threads, 0 before the first scan
    ui_events,        \* signals queued to the UI thread's event loop, in emission order
    found_games,      \* MainWindow.found_games
    game_list,        \* game_list_widget: its items, each [text, data] and the thread that added it
    selected,         \* index of the selected item of game_list, 0 for none
    details_text,     \* details_text: its lines
    progress_bar,     \* progress_bar.isVisible()
    warning,          \* title of the last QMessageBox.warning shown, "" for none
    saves             \* number of save_api_key clicks so far

vars == <<api_key, requests_log, search_log, threads, scan_thread, ui_events,
          found_games, game_list, selected, details_text,
          progress_bar, warning, saves>>

clientVars == <<api_key, requests_log, search_log>>
windowVars == <<scan_thread, found_games, game_list, selected,
                details_text, progress_bar, warning, saves>>

----------------------------------------------------------------------------
(* Bounds of the model. *)

\* longest glob result of one root in the scanner's own specification
MaxMatches == 12
\* scans started in one run of the window
MaxScans == 2
\* scans started in one run of the window where the lookups are followed
MaxLookupScans == 1
\* Save Key clicks in one run of the window
MaxSaves == 1
\* search_game calls in one run
MaxSearches == 2

----------------------------------------------------------------------------
(* Strings. *)

\* None, as a value no string equals: its one element is not a character
None == <<"None">>

UpperCase == <<"A","B","C","D","E","F","G","H","I","J","K","L","M",
               "N","O","P","Q","R","S","T","U","V","W","X","Y","Z">>
LowerCase == <<"a","b","c","d","e","f","g","h","i","j","k","l","m",
               "n","o","p","q","r","s","t","u","v","w","x","y","z">>
Digits == {"0","1","2","3","4","5","6","7","8","9"}

RECURSIVE Concat(_)
Concat(ss) == IF ss = <<>> THEN <<>> ELSE Head(ss) \o Concat(Tail(ss))

\* str.lower(), one character
ToLower == [c \in {UpperCase[i] : i \in 1..26} |->
                LowerCase[CHOOSE i \in 1..26 : UpperCase[i] = c]]
LowerChar(c) == IF c \in DOMAIN ToLower THEN ToLower[c] ELSE c

\* str.lower()
Lower(s) == [i \in 1..Len(s) |-> LowerChar(s[i])]

\* sub in s
Contains(s, sub) ==
    \E i \in 0..(Len(s) - Len(sub)) : SubSeq(s, i + 1, i + Len(sub)) = sub

\* s[:n] cut one element late
TakeOneMore(s, n) == SubSeq(s, 1, IF Len(s) < n + 1 THEN Len(s) ELSE n + 1)

\* s[:n] of a list
Take(s, n) == SubSeq(s, 1, IF Len(s) < n THEN Len(s) ELSE n)

\* str.rfind over a set of characters: the last index holding one of them, 0 for none
LastIndexOf(s, cs) ==
    IF \E i \in 1..Len(s) : s[i] \in cs
    THEN CHOOSE i \in 1..Len(s) : s[i] \in cs /\ \A j \in (i+1)..Len(s) : s[j] \notin cs
    ELSE 0

\* os.path.basename on Windows: what follows the last separator
basename(p) == SubSeq(p, LastIndexOf(p, {"\\", "/"}) + 1, Len(p))

\* os.path.splitext(p)[0]: cut at the last dot, unless only dots precede it in the
\* last path component
splitext_root(p) ==
    LET sep == LastIndexOf(p, {"\\", "/"})
        dot == LastIndexOf(p, {"."})
    IN  IF dot > sep /\ \E k \in (sep+1)..(dot-1) : p[k] # "."
        THEN SubSeq(p, 1, dot - 1)
        ELSE p

Whitespace == {" ", "\t", "\n"}

\* str.strip()
strip(s) ==
    IF \A i \in 1..Len(s) : s[i] \in Whitespace
    THEN <<>>
    ELSE LET a == CHOOSE i \in 1..Len(s) :
                     s[i] \notin Whitespace /\ \A j \in 1..(i-1) : s[j] \in Whitespace
             b == CHOOSE i \in 1..Len(s) :
                     s[i] \notin Whitespace /\ \A j \in (i+1)..Len(s) : s[j] \in Whitespace
         IN  SubSeq(s, a, b)

\* the characters urllib's quote leaves alone: letters, digits, "_.-~" and the
\* default safe "/"
QuoteSafe ==
    {UpperCase[i] : i \in 1..26} \cup {LowerCase[i] : i \in 1..26} \cup Digits
        \cup {"_", ".", "-", "~", "/"}

\* the percent-encoding of the other ASCII characters that occur in the model
PercentCode(c) ==
    CASE c = " "  -> <<"%", "2", "0">>
      [] c = "("  -> <<"%", "2", "8">>
      [] c = ")"  -> <<"%", "2", "9">>
      [] c = ":"  -> <<"%", "3", "A">>
      [] c = "\\" -> <<"%", "5", "C">>
      [] c = "\t" -> <<"%", "0", "9">>
      [] c = "\n" -> <<"%", "0", "A">>

\* requests.utils.quote
quote(s) ==
    Concat([i \in 1..Len(s) |-> IF s[i] \in QuoteSafe THEN <<s[i]>> ELSE PercentCode(s[i])])

\* the test "api_key is not None" in place of truthiness
TruthyNotNone(k) == k # None

\* Python truthiness of api_key: None and "" are falsy
Truthy(k) == k # None /\ k # <<>>

\* a Python string literal as a sequence of characters
Key == <<"k", "1">>
KeyPadded == <<" ", "k", "1", " ">>
Blank == <<" ">>

----------------------------------------------------------------------------
(* SteamGridDbClient. *)

base_url == "https://www.steamgriddb.com/api/v2"

\* what API_KEY = os.getenv('API_KEY') can be at start-up
EnvApiKeys == {None, <<>>, Key}

\* what the user can type into the key field
KeyInputs == {<<>>, Blank, KeyPadded}

\* what requests.get and response.json() can do: raise, answer with a status
\* and a JSON body, or answer with a body that is not JSON
PortalBody == [data |-> <<[name |-> "Portal 2", id |-> 123]>>]
ManyBody ==
    [data |-> <<[name |-> "Half-Life", id |-> 1], [name |-> "Half-Life 2", id |-> 2],
                [name |-> "Half-Life 2: Episode One"], [name |-> "Half-Life 2: Episode Two", id |-> 4],
                [name |-> "Half-Life: Source", id |-> 5], [name |-> "Half-Life: Alyx", id |-> 6]>>]
EmptyBody == [data |-> <<>>]
NoDataBody == [success |-> "true"]
HttpOutcomes ==
    {[exception |-> "Connection refused"],
     [status_code |-> 200, json |-> PortalBody],
     [status_code |-> 200, json |-> ManyBody],
     [status_code |-> 200, json |-> EmptyBody],
     [status_code |-> 200, json |-> NoDataBody],
     [status_code |-> 200, json_error |-> "Expecting value: line 1 column 1 (char 0)"],
     [status_code |-> 404, json |-> NoDataBody],
     [status_code |-> 500, json_error |-> "Expecting value: line 1 column 1 (char 0)"]}

\* the same, for the window's runs
WindowHttpOutcomes ==
    {[exception |-> "Connection refused"],
     [status_code |-> 200, json |-> ManyBody],
     [status_code |-> 404, json |-> NoDataBody]}

ApiKeyNotSet ==
    "API key not set. Please retrieve one at https://www.steamgriddb.com/profile/preferences/api"

\* the request search_game builds: lines 29-30
SearchRequest(key, game_name) ==
    [method |-> "GET",
     url |-> <<base_url, "/search/autocomplete/", quote(game_name)>>,
     headers |-> [Authorization |-> <<"Bearer ", key>>]]

\* the try block without the test of the status code
SearchResponseNoStatusCheck(outcome) ==
    IF "exception" \in DOMAIN outcome
    THEN [error |-> "Request failed: " \o outcome.exception]
    ELSE IF "json" \in DOMAIN outcome
         THEN outcome.json
         ELSE [error |-> "Request failed: " \o outcome.json_error]

\* the try block of search_game: lines 32-39
SearchResponse(outcome) ==
    IF "exception" \in DOMAIN outcome
    THEN [error |-> "Request failed: " \o outcome.exception]
    ELSE IF outcome.status_code = 200
         THEN IF "json" \in DOMAIN outcome
              THEN outcome.json
              ELSE [error |-> "Request failed: " \o outcome.json_error]
         ELSE [error |-> "API request failed: " \o ToString(outcome.status_code)]

\* the requests search_game issues with this key
SearchRequests(key, game_name) ==
    IF ~Truthy(key) THEN <<>> ELSE <<SearchRequest(key, game_name)>>

\* the value search_game returns
SearchResult(key, outcome) ==
    IF ~Truthy(key) THEN [error |-> ApiKeyNotSet] ELSE SearchResponse(outcome)

\* SteamGridDbClient.search_game(game_name), the network answering with outcome
search_game(game_name, outcome) ==
    /\ Len(search_log) < MaxSearches
    /\ requests_log' = requests_log \o SearchRequests(api_key, game_name)
    /\ search_log' = Append(search_log,
            [game_name |-> game_name, api_key |-> api_key,
             outcome |-> IF Truthy(api_key) THEN outcome ELSE [unused |-> TRUE],
             result |-> SearchResult(api_key, outcome)])
    /\ UNCHANGED api_key

\* SteamGridDbClient.set_api_key(api_key)
set_api_key(text) ==
    /\ api_key' = strip(text)
    /\ UNCHANGED <<requests_log, search_log>>

----------------------------------------------------------------------------
(* The filesystem the scan sees. *)

ProgramFiles == <<"C",":","\\","P","r","o","g","r","a","m"," ","F","i","l","e","s">>
ProgramFilesX86 == <<"C",":","\\","P","r","o","g","r","a","m"," ","F","i","l","e","s"," ","(","x","8","6",")">>
\* os.path.expanduser("~") of the user running the program
HomeDir == <<"C",":","\\","U","s","e","r","s","\\","m","e">>

\* the directories the three patterns of common_paths enumerate
CommonDirs == <<ProgramFiles, ProgramFilesX86, HomeDir \o <<"\\","D","e","s","k","t","o","p">>>>

\* common_paths: lines 62-66
common_paths == [r \in 1..3 |-> CommonDirs[r] \o <<"\\", "*">>]

\* game_extensions: line 61
game_extensions == <<<<"*",".","e","x","e">>>>

\* os.path.join(path, ext) on Windows: line 71
search_pattern(path, ext) == path \o <<"\\">> \o ext

\* file names "*.exe" matches (Windows matches the extension in either case)
FileNames ==
    <<<<"g","a","m","e",".","e","x","e">>,
      <<"S","e","t","u","p",".","e","x","e">>,
      <<"U","N","I","N","S","0","0","0",".","e","x","e">>,
      <<"u","n","i","n",".","e","x","e">>,
      <<"G","a","m","e","I","n","s","t","a","l","l","e","r",".","e","x","e">>,
      <<"U","n","r","e","a","l","E","d","i","t","o","r",".","E","X","E">>,
      <<"m","y"," ","g","a","m","e",".","v","2",".","e","x","e">>>>

\* the i-th match of a root in a listing of one kind: "plain" files are games in
\* directories whose own name is on the skip list, "skipped" files are installers,
\* "mixed" cycles through FileNames
MatchOf(r, kind, i) ==
    LET letter == LowerCase[((i - 1) % 26) + 1]
        dir == IF kind = "plain" THEN <<"U","n","r","e","a","l"," ","S","e","t","u","p"," ">> \o <<letter>> ELSE <<letter>>
        filename == CASE kind = "plain"   -> FileNames[1]
                      [] kind = "skipped" -> FileNames[2]
                      [] kind = "mixed"   -> FileNames[((i - 1) % Len(FileNames)) + 1]
    IN  CommonDirs[r] \o <<"\\">> \o dir \o <<"\\">> \o filename

Listing(r, kind, n) == [i \in 1..n |-> MatchOf(r, kind, i)]

ListingKinds == {"plain", "skipped", "mixed"}

\* the lengths of the listings: none, one, a few, and around the ten the scan
\* looks at
ListingLengths == {0, 1, 5} \cup {n \in 9..MaxMatches : TRUE}

\* what glob.glob can do on the pattern of root r: raise, or return its matches
GlobOutcomes(r) ==
    {[raises |-> "[WinError 5] Access is denied"]}
        \cup {[files |-> Listing(r, kind, n)] : kind \in ListingKinds, n \in ListingLengths}

\* the same, for the window's runs: Program Files holds one game or cannot be
\* read, Program Files (x86) holds two installers and a game, the desktop nothing
WindowGlobOutcomes(r) ==
    CASE r = 1 -> {[raises |-> "[WinError 5] Access is denied"],
                   [files |-> Listing(r, "mixed", 1)]}
      [] r = 2 -> {[files |-> SubSeq(Listing(r, "mixed", 4), 2, 4)]}
      [] r = 3 -> {[files |-> <<>>]}

----------------------------------------------------------------------------
(* ScanThread. *)

ScanTypes == {"local", "steam", "epic"}

\* the substrings of line 76
skip_list == {<<"u","n","i","n","s">>, <<"i","n","s","t","a","l","l">>, <<"s","e","t","u","p">>, <<"u","n","r","e","a","l">>}

\* the number of matches of one pattern the loop of line 74 looks at
FilesPerPattern == 10
\* the length scan_local_games cuts its result to: line 86
MaxGames == 15

\* line 76 without the .lower()
SkippedCaseSensitive(filename) == \E skip \in skip_list : Contains(filename, skip)

\* line 76: any(skip in filename.lower() for skip in [...])
Skipped(filename) == \E skip \in skip_list : Contains(Lower(filename), skip)

\* the dict of lines 78-82
GameOf(file) ==
    [name |-> splitext_root(basename(file)), path |-> file, type |-> "local"]

\* the loop of lines 74-82 over the files it is given
RECURSIVE AppendGames(_, _)
AppendGames(found, files) ==
    IF files = <<>>
    THEN found
    ELSE AppendGames(IF Skipped(basename(Head(files)))
                     THEN found
                     ELSE Append(found, GameOf(Head(files))),
                     Tail(files))

\* a ScanThread just constructed and started
NewThread(scan_type) ==
    [scan_type |-> scan_type, pc |-> "run", path_idx |-> 1, found_games |-> <<>>,
     games |-> <<>>, emitted |-> <<>>, glob_results |-> <<>>]

\* signal.emit(arg) from thread t: queued to the UI thread, and recorded
Emitted(th, signal, arg) == Append(th.emitted, [signal |-> signal, arg |-> arg])
Queued(t, signal, arg) == Append(ui_events, [thread |-> t, signal |-> signal, arg |-> arg])

\* run with the test of line 50 also true of "epic"
ThreadRunEpicAsLocal(t) ==
    /\ t \in 1..Len(threads)
    /\ threads[t].pc = "run"
    /\ IF threads[t].scan_type \in {"local", "epic"}
       THEN LET msg == <<"Scanning for game executables...">>
            IN  /\ threads' = [threads EXCEPT ![t].pc = "scan",
                                              ![t].path_idx = 1,
                                              ![t].found_games = <<>>,
                                              ![t].emitted = Emitted(threads[t], "progress", msg)]
                /\ ui_events' = Queued(t, "progress", msg)
       ELSE /\ threads' = [threads EXCEPT
                    ![t].pc = "emit",
                    ![t].games = <<[str |-> "Steam scanning not implemented yet"]>>]
            /\ UNCHANGED ui_events
    /\ UNCHANGED <<clientVars, windowVars>>

\* ScanThread.run up to the first glob: lines 49-68
ThreadRun(t) ==
    /\ t \in 1..Len(threads)
    /\ threads[t].pc = "run"
    /\ IF threads[t].scan_type = "local"
       THEN LET msg == <<"Scanning for game executables...">>
            IN  /\ threads' = [threads EXCEPT ![t].pc = "scan",
                                              ![t].path_idx = 1,
                                              ![t].found_games = <<>>,
                                              ![t].emitted = Emitted(threads[t], "progress", msg)]
                /\ ui_events' = Queued(t, "progress", msg)
       ELSE /\ threads' = [threads EXCEPT
                    ![t].pc = "emit",
                    ![t].games = IF threads[t].scan_type = "steam"
                                 THEN <<[str |-> "Steam scanning not implemented yet"]>>
                                 ELSE <<[str |-> "Epic scanning not implemented yet"]>>]
            /\ UNCHANGED ui_events
    /\ UNCHANGED <<clientVars, windowVars>>

\* the pass without the try of line 72: the exception leaves run, and the thread
\* ends without emitting
ScanPathUncaught(t, outcome) ==
    /\ t \in 1..Len(threads)
    /\ threads[t].pc = "scan"
    /\ LET th == threads[t]
           path == common_paths[th.path_idx]
           pattern == search_pattern(path, game_extensions[1])
           raised == "raises" \in DOMAIN outcome
           found == IF raised
                    THEN th.found_games
                    ELSE AppendGames(th.found_games, Take(outcome.files, FilesPerPattern))
           last == th.path_idx = Len(common_paths)
       IN  threads' = [threads EXCEPT
                    ![t].found_games = found,
                    ![t].glob_results = Append(th.glob_results,
                                               [pattern |-> pattern, outcome |-> outcome]),
                    ![t].path_idx = th.path_idx + 1,
                    ![t].pc = IF raised THEN "raised" ELSE IF last THEN "emit" ELSE "scan",
                    ![t].games = IF last /\ ~raised THEN Take(found, MaxGames) ELSE th.games]
    /\ UNCHANGED <<ui_events, clientVars, windowVars>>

\* the pass with the except of line 83 around the whole loop: the first failing
\* root ends the scan
ScanPathBreak(t, outcome) ==
    /\ t \in 1..Len(threads)
    /\ threads[t].pc = "scan"
    /\ LET th == threads[t]
           path == common_paths[th.path_idx]
           pattern == search_pattern(path, game_extensions[1])
           raised == "raises" \in DOMAIN outcome
           found == IF raised
                    THEN th.found_games
                    ELSE AppendGames(th.found_games, Take(outcome.files, FilesPerPattern))
           msg == <<"Error scanning ", path, ": ", outcome.raises>>
           last == raised \/ th.path_idx = Len(common_paths)
       IN  /\ threads' = [threads EXCEPT
                    ![t].found_games = found,
                    ![t].glob_results = Append(th.glob_results,
                                               [pattern |-> pattern, outcome |-> outcome]),
                    ![t].emitted = IF raised THEN Emitted(th, "progress", msg) ELSE th.emitted,
                    ![t].path_idx = th.path_idx + 1,
                    ![t].pc = IF last THEN "emit" ELSE "scan",
                    ![t].games = IF last THEN Take(found, MaxGames) ELSE th.games]
           /\ ui_events' = IF raised THEN Queued(t, "progress", msg) ELSE ui_events
    /\ UNCHANGED <<clientVars, windowVars>>

\* one pass of the loop of line 69, glob.glob doing outcome; the last pass
\* returns found_games[:15] to run: lines 69-86
ScanPath(t, outcome) ==
    /\ t \in 1..Len(threads)
    /\ threads[t].pc = "scan"
    /\ LET th == threads[t]
           path == common_paths[th.path_idx]
           pattern == search_pattern(path, game_extensions[1])
           found == IF "raises" \in DOMAIN outcome
                    THEN th.found_games
                    ELSE AppendGames(th.found_games, Take(outcome.files, FilesPerPattern))
           msg == <<"Error scanning ", path, ": ", outcome.raises>>
           last == th.path_idx = Len(common_paths)
       IN  /\ threads' = [threads EXCEPT
                    ![t].found_games = found,
                    ![t].glob_results = Append(th.glob_results,
                                               [pattern |-> pattern, outcome |-> outcome]),
                    ![t].emitted = IF "raises" \in DOMAIN outcome
                                   THEN Emitted(th, "progress", msg)
                                   ELSE th.emitted,
                    ![t].path_idx = th.path_idx + 1,
                    ![t].pc = IF last THEN "emit" ELSE "scan",
                    ![t].games = IF last THEN Take(found, MaxGames) ELSE th.games]
           /\ ui_events' = IF "raises" \in DOMAIN outcome
                           THEN Queued(t, "progress", msg)
                           ELSE ui_events
    /\ UNCHANGED <<clientVars, windowVars>>

\* self.finished_signal.emit(games), after which run returns: line 57
ThreadEmit(t) ==
    /\ t \in 1..Len(threads)
    /\ threads[t].pc = "emit"
    /\ threads' = [threads EXCEPT
            ![t].pc = "done",
            ![t].emitted = Emitted(threads[t], "finished", threads[t].games)]
    /\ ui_events' = Queued(t, "finished", threads[t].games)
    /\ UNCHANGED <<clientVars, windowVars>>

\* a thread that has been started and whose run has not returned
Running(t) == t \in 1..Len(threads) /\ threads[t].pc # "done"

----------------------------------------------------------------------------
(* MainWindow. *)

\* item.data(UserRole) of an item no index was stored on
NoData == -1

IsDict(game) == "path" \in DOMAIN game

\* MainWindow.save_api_key, the key field holding text: lines 174-180
save_api_key(text) ==
    /\ saves < MaxSaves
    /\ saves' = saves + 1
    /\ IF text # <<>>
       THEN /\ set_api_key(text)
            /\ details_text' = Append(details_text, <<"API key saved successfully!">>)
            /\ UNCHANGED warning
       ELSE /\ warning' = "Warning"
            /\ UNCHANGED <<clientVars, details_text>>
    /\ UNCHANGED <<threads, ui_events, scan_thread, found_games, game_list, selected,
                   progress_bar>>

\* MainWindow.start_scan(scan_type): lines 182-196
start_scan(scan_type) ==
    /\ IF scan_type = "local" /\ ~Truthy(api_key)
       THEN /\ warning' = "API Key Required"
            /\ UNCHANGED <<threads, scan_thread, game_list, selected, details_text,
                           progress_bar>>
       ELSE /\ progress_bar' = TRUE
            /\ game_list' = <<>>
            /\ selected' = 0
            /\ details_text' = << <<"Starting ", scan_type, " game scan...">> >>
            /\ threads' = Append(threads, NewThread(scan_type))
            /\ scan_thread' = Len(threads) + 1
            /\ UNCHANGED warning
    /\ UNCHANGED <<clientVars, ui_events, found_games, saves>>

\* MainWindow.update_progress(message): lines 198-199
update_progress(message) ==
    /\ details_text' = Append(details_text, message)
    /\ UNCHANGED <<found_games, game_list, selected, progress_bar>>

\* the item scan_finished adds for games[i]: lines 208-214
ItemOf(t, i, game) ==
    IF IsDict(game)
    THEN [text |-> <<game.name, " (Local)">>, data |-> i, thread |-> t]
    ELSE [text |-> <<game.str>>, data |-> NoData, thread |-> t]

\* MainWindow.scan_finished(games), the signal coming from thread t: lines 201-214
scan_finished(t, games) ==
    /\ progress_bar' = FALSE
    /\ found_games' = games
    /\ details_text' = Append(details_text,
                              <<"Scan completed! Found ", ToString(Len(games)), " games.\\n">>)
    /\ game_list' = game_list \o [i \in 1..Len(games) |-> ItemOf(t, i - 1, games[i])]
    /\ UNCHANGED selected

\* the UI thread's event loop takes the next queued signal to its slot
DeliverEvent ==
    /\ ui_events # <<>>
    /\ LET e == Head(ui_events)
       IN  IF e.signal = "progress"
           THEN update_progress(e.arg)
           ELSE scan_finished(e.thread, e.arg)
    /\ ui_events' = Tail(ui_events)
    /\ UNCHANGED <<clientVars, threads, scan_thread, warning, saves>>

\* what lookup_game_metadata appends for a result: lines 242-250
MetadataLines(result) ==
    IF "data" \in DOMAIN result /\ result.data # <<>>
    THEN << <<"\\nFound matching games:">> >>
            \o [i \in 1..Len(Take(result.data, 5)) |->
                    <<"  ", result.data[i].name, " (ID: ",
                      IF "id" \in DOMAIN result.data[i]
                      THEN ToString(result.data[i].id) ELSE "N/A", ")">>]
    ELSE IF "error" \in DOMAIN result
         THEN << <<"\\nError: ", result.error>> >>
         ELSE << <<"\\nNo metadata found">> >>

\* MainWindow.show_game_details(game) and the lookup_game_metadata it calls,
\* the network answering with outcome: lines 229-250
show_game_details(game, outcome) ==
    /\ search_game(game.name, outcome)
    /\ details_text' = << <<"Game: ", game.name>>, <<"Path: ", game.path>>,
                          <<"Type: ", game.type>>, <<"\\nSearching for metadata...">> >>
                       \o MetadataLines(SearchResult(api_key, outcome))

\* on_game_selected giving up once a lookup has failed
on_game_selected_until_error(i, outcome) ==
    /\ i \in 1..Len(game_list)
    /\ i # selected
    /\ selected' = i
    /\ LET game_index == game_list[i].data
       IN  IF /\ game_index # NoData
              /\ game_index < Len(found_games)
              /\ IsDict(found_games[game_index + 1])
              /\ \A k \in 1..Len(search_log) : "error" \notin DOMAIN search_log[k].result
           THEN show_game_details(found_games[game_index + 1], outcome)
           ELSE UNCHANGED <<clientVars, details_text>>
    /\ UNCHANGED <<threads, ui_events, scan_thread, found_games, game_list,
                   progress_bar, warning, saves>>

\* MainWindow.on_game_selected, the user having selected item i: lines 216-227
on_game_selected(i, outcome) ==
    /\ i \in 1..Len(game_list)
    /\ i # selected
    /\ selected' = i
    /\ LET game_index == game_list[i].data
       IN  IF /\ game_index # NoData
              /\ game_index < Len(found_games)
              /\ IsDict(found_games[game_index + 1])
           THEN show_game_details(found_games[game_index + 1], outcome)
           ELSE UNCHANGED <<clientVars, details_text>>
    /\ UNCHANGED <<threads, ui_events, scan_thread, found_games, game_list,
                   progress_bar, warning, saves>>

----------------------------------------------------------------------------
(* The window's runs: the user clicks, the scan threads run, the event loop     *)
(* delivers their signals.                                                      *)

Init ==
    /\ api_key \in EnvApiKeys
    /\ requests_log = <<>>
    /\ search_log = <<>>
    /\ threads = <<>>
    /\ scan_thread = 0
    /\ ui_events = <<>>
    /\ found_games = <<>>
    /\ game_list = <<>>
    /\ selected = 0
    /\ details_text = <<>>
    /\ progress_bar = FALSE
    /\ warning = ""
    /\ saves = 0

ThreadStep(t) ==
    /\ t \in 1..Len(threads)
    /\ \/ ThreadRun(t)
       \/ /\ threads[t].pc = "scan"
          /\ \E outcome \in WindowGlobOutcomes(threads[t].path_idx) : ScanPath(t, outcome)
       \/ ThreadEmit(t)

\* the window's steps, the user starting at most maxScans scans
WindowNext(maxScans) ==
    \/ \E text \in KeyInputs : save_api_key(text)
    \/ \E scan_type \in ScanTypes : Len(threads) < maxScans /\ start_scan(scan_type)
    \/ \E t \in 1..maxScans : ThreadStep(t)
    \/ DeliverEvent
    \/ \E i \in 1..Len(game_list), outcome \in WindowHttpOutcomes : on_game_selected(i, outcome)

Next == WindowNext(MaxScans)

Spec == Init /\ [][Next]_vars

\* the same window, with its own bound on the scans, under the scheduling the
\* program has: a started QThread runs until run returns, and the event loop
\* delivers what is queued.  Nothing makes the user click.
LookupNext == WindowNext(MaxLookupScans)

LookupSpec ==
    /\ Init /\ [][LookupNext]_vars
    /\ \A t \in 1..MaxLookupScans : WF_vars(ThreadStep(t))
    /\ WF_vars(DeliverEvent)

----------------------------------------------------------------------------
(* One scan thread on its own, over the larger filesystems: the window as        *)
(* start_scan leaves it, and from there the thread alone.                       *)

ScanInit ==
    /\ api_key = Key
    /\ requests_log = <<>>
    /\ search_log = <<>>
    /\ \E scan_type \in ScanTypes :
          /\ threads = <<NewThread(scan_type)>>
          /\ details_text = << <<"Starting ", scan_type, " game scan...">> >>
    /\ scan_thread = 1
    /\ ui_events = <<>>
    /\ found_games = <<>>
    /\ game_list = <<>>
    /\ selected = 0
    /\ progress_bar = TRUE
    /\ warning = ""
    /\ saves = 0

ScanNext ==
    \/ ThreadRun(1)
    \/ /\ threads[1].pc = "scan"
       /\ \E outcome \in GlobOutcomes(threads[1].path_idx) : ScanPath(1, outcome)
    \/ ThreadEmit(1)

\* a started QThread runs until run returns
ScanSpec == ScanInit /\ [][ScanNext]_vars /\ WF_vars(ScanNext)

----------------------------------------------------------------------------
(* The client on its own: any key, any query, any answer of the network. *)

Queries == {<<>>, FileNames[1], <<"m", "y", " ", "g", "a", "m", "e">>}

ClientInit ==
    /\ api_key \in EnvApiKeys
    /\ requests_log = <<>>
    /\ search_log = <<>>
    /\ threads = <<>>
    /\ scan_thread = 0
    /\ ui_events = <<>>
    /\ found_games = <<>>
    /\ game_list = <<>>
    /\ selected = 0
    /\ details_text = <<>>
    /\ progress_bar = FALSE
    /\ warning = ""
    /\ saves = 0

ClientNext ==
    \/ \E text \in KeyInputs \cup {Key} :
          set_api_key(text) /\ UNCHANGED <<threads, ui_events, windowVars>>
    \/ \E game_name \in Queries, outcome \in HttpOutcomes :
          search_game(game_name, outcome) /\ UNCHANGED <<threads, ui_events, windowVars>>

ClientSpec == ClientInit /\ [][ClientNext]_vars

----------------------------------------------------------------------------
(* What the properties below are stated with. *)

\* the first n elements of a sequence
FirstN(seq, n) == [i \in 1..(IF Len(seq) < n THEN Len(seq) ELSE n) |-> seq[i]]

\* the substrings no file name of a result may contain
DenyList == {<<"u","n","i","n","s">>, <<"i","n","s","t","a","l","l">>, <<"s","e","t","u","p">>, <<"u","n","r","e","a","l">>}

\* the file name of a path contains a denylisted substring, in any case
Denied(file) ==
    LET filename == Lower(basename(file))
    IN  \E d \in DenyList : Contains(filename, d)
NotDenied(file) == ~Denied(file)

\* the thread of the scanner's own runs
Scanner == threads[1]

\* the scan has gone through every root and holds its result
Scanned(th) == th.scan_type = "local" /\ th.pc \in {"emit", "done"}

Failed(th, r) == "raises" \in DOMAIN th.glob_results[r].outcome

\* what glob returned for root r, nothing where it raised
RawMatches(th, r) == IF Failed(th, r) THEN <<>> ELSE th.glob_results[r].outcome.files

\* the matches of root r that may become records
KeptMatches(th, r) == SelectSeq(FirstN(RawMatches(th, r), 10), NotDenied)

\* the paths of the records of a result
PathsOf(games) == [i \in 1..Len(games) |-> games[i].path]

ProgressOf(th) == SelectSeq(th.emitted, LAMBDA e : e.signal = "progress")
FinishedAt(th) == {i \in 1..Len(th.emitted) : th.emitted[i].signal = "finished"}

Placeholders == {"Steam scanning not implemented yet", "Epic scanning not implemented yet"}

----------------------------------------------------------------------------
(* The scan thread. *)

\* C1, safety: a thread has emitted finished_signal at most once, it has exactly
\* when its run has returned, and then the signal is the last it emitted and
\* carries the list run computed, which for a local scan is found_games[:15].
C1_Terminal ==
    \A t \in 1..Len(threads) :
        LET th == threads[t]
        IN  /\ Cardinality(FinishedAt(th)) <= 1
            /\ (FinishedAt(th) # {}) <=> (th.pc = "done")
            /\ \A i \in FinishedAt(th) :
                  /\ i = Len(th.emitted)
                  /\ th.emitted[i].arg = th.games
                  /\ th.scan_type = "local" => th.games = FirstN(th.found_games, 15)

\* C1: every started scan thread emits exactly one finished_signal, carrying the
\* full result list, emits nothing after it, and always reaches it, whatever the
\* mode and whatever the enumeration of the roots does.
C1_CompletionOnceAndTerminal == [] C1_Terminal /\ <>(Scanner.pc = "done")

\* a local scan in which every root failed has delivered its completion
C1_Witness ==
    /\ Scanner.scan_type = "local"
    /\ Scanner.pc = "done"
    /\ Len(Scanner.glob_results) = 3
    /\ \A r \in 1..3 : Failed(Scanner, r)
    /\ Scanner.emitted[Len(Scanner.emitted)].signal = "finished"

\* what glob returned for each root, what of it may become records, and the
\* paths of the records of the result
RawOf(th) == [r \in 1..Len(th.glob_results) |-> RawMatches(th, r)]
KeptOf(th) == [r \in 1..Len(th.glob_results) |-> KeptMatches(th, r)]
Range(seq) == {seq[i] : i \in 1..Len(seq)}

\* C2: a local scan returns at most 15 records; only the first 10 raw matches of
\* a root are considered, so a match at index 10 or later is never a record; and
\* the result is the first 15 of the aggregate over the roots in root order.
C2_ScanBounds ==
    Scanned(Scanner) =>
        LET raw == RawOf(Scanner)
            kept == KeptOf(Scanner)
            paths == Range(PathsOf(Scanner.games))
        IN  /\ Len(Scanner.glob_results) = 3
            /\ Len(Scanner.games) <= 15
            /\ \A r \in 1..3 : \A j \in 11..Len(raw[r]) : raw[r][j] \notin paths
            /\ PathsOf(Scanner.games) = FirstN(kept[1] \o kept[2] \o kept[3], 15)

\* a finished scan in which a root had more than 10 matches, a non-denylisted one
\* beyond the tenth and denylisted ones among the first ten, and the roots
\* together kept more than 15
C2_Witness ==
    /\ Scanned(Scanner) /\ Scanner.pc = "done"
    /\ LET raw == RawOf(Scanner)
           kept == KeptOf(Scanner)
       IN  /\ \E r \in 1..3 :
                 /\ Len(raw[r]) > 10
                 /\ NotDenied(raw[r][11])
                 /\ \E j \in 1..10 : Denied(raw[r][j])
           /\ Len(kept[1]) + Len(kept[2]) + Len(kept[3]) > 15
           /\ Len(kept[1]) < 15
    /\ Len(Scanner.games) = 15

\* C3: no record of a local scan has a file name containing, in any case, "unins",
\* "install", "setup" or "unreal"; and every other match among the first 10 of a
\* root is a record, unless the result was cut at 15 records.
C3_Denylist ==
    Scanned(Scanner) =>
        LET kept == KeptOf(Scanner)
            records == Range(Scanner.games)
        IN  /\ \A g \in records :
                  /\ NotDenied(g.path)
                  /\ \A d \in DenyList : ~Contains(Lower(g.name), d)
            /\ \/ Len(Scanner.games) = 15
               \/ \A r \in 1..Len(kept) : \A j \in 1..Len(kept[r]) :
                     [name |-> splitext_root(basename(kept[r][j])),
                      path |-> kept[r][j], type |-> "local"] \in records

\* a finished scan that skipped "Setup.exe" and kept a game whose directory, not
\* its file name, holds a denylisted substring
C3_Witness ==
    /\ Scanned(Scanner) /\ Scanner.pc = "done"
    /\ LET raw == RawOf(Scanner)
       IN  \E r \in 1..3 : \E j \in 1..Len(FirstN(raw[r], 10)) :
              basename(raw[r][j]) = FileNames[2]
    /\ \E i \in 1..Len(Scanner.games) :
          \E d \in DenyList : Contains(Lower(Scanner.games[i].path), d)
    /\ Len(Scanner.games) < 15

\* the failure of root r was reported once, naming the root and the error
ReportedOnce(th, r) ==
    Len(SelectSeq(ProgressOf(th),
                  LAMBDA e : e.arg = <<"Error scanning ", common_paths[r], ": ",
                                       th.glob_results[r].outcome.raises>>)) = 1

\* C6 as stated: after a local scan in which a root failed, each failure was
\* reported once, every root was enumerated, and every record collected from the
\* other roots is in the result.
C6_AllOtherRecordsReturned ==
    (Scanned(Scanner) /\ \E r \in 1..Len(Scanner.glob_results) : Failed(Scanner, r)) =>
        LET kept == KeptOf(Scanner)
            paths == Range(PathsOf(Scanner.games))
        IN  /\ Len(Scanner.glob_results) = 3
            /\ \A r \in 1..3 : Failed(Scanner, r) => ReportedOnce(Scanner, r)
            /\ \A r \in 1..3 : Range(kept[r]) \subseteq paths

\* C6, amended: after a local scan in which a root failed, each failure was
\* reported once and there is one progress notification per failure besides the
\* opening one, every root was enumerated, and the result is the first 15 of the
\* records collected from the other roots in root order.
C6_FailureNotFatal ==
    (Scanned(Scanner) /\ \E r \in 1..Len(Scanner.glob_results) : Failed(Scanner, r)) =>
        /\ Len(Scanner.glob_results) = 3
        /\ \A r \in 1..3 : Failed(Scanner, r) => ReportedOnce(Scanner, r)
        /\ Len(ProgressOf(Scanner)) = 1 + Cardinality({r \in 1..3 : Failed(Scanner, r)})
        /\ LET others == [r \in 1..3 |-> IF Failed(Scanner, r) THEN <<>> ELSE KeptMatches(Scanner, r)]
           IN  PathsOf(Scanner.games) = FirstN(others[1] \o others[2] \o others[3], 15)

\* a finished scan whose second root failed and whose result holds records of
\* the first and of the third
C6_Witness ==
    /\ Scanned(Scanner) /\ Scanner.pc = "done"
    /\ Len(Scanner.glob_results) = 3
    /\ Failed(Scanner, 2) /\ ~Failed(Scanner, 1) /\ ~Failed(Scanner, 3)
    /\ LET kept == KeptOf(Scanner)
           paths == Range(PathsOf(Scanner.games))
       IN  /\ Range(kept[1]) \cap paths # {}
           /\ Range(kept[3]) \cap paths # {}

\* C7: a steam or epic scan enumerates nothing and emits no progress
\* notification, and completes with a list of exactly one element, the string
\* saying that scanning is not implemented yet; only a local scan calls glob.
C7_PlaceholderNoFilesystem ==
    \A t \in 1..Len(threads) :
        LET th == threads[t]
        IN  /\ th.glob_results # <<>> => th.scan_type = "local"
            /\ th.scan_type \in {"steam", "epic"} =>
                  /\ ProgressOf(th) = <<>>
                  /\ th.pc = "done" =>
                        /\ Len(th.emitted) = 1
                        /\ Len(th.emitted[1].arg) = 1
                        /\ ~IsDict(th.emitted[1].arg[1])
                        /\ th.emitted[1].arg[1].str \in Placeholders

\* an epic scan has completed
C7_Witness ==
    /\ Scanner.scan_type = "epic"
    /\ Scanner.pc = "done"
    /\ Scanner.emitted[1].signal = "finished"

----------------------------------------------------------------------------
(* The client. *)

KeyPresent(k) == k # None /\ k # <<>>

\* the calls of search_game made with a key
KeyedCalls == {k \in 1..Len(search_log) : KeyPresent(search_log[k].api_key)}

\* C4 as stated: a search with the key unset returns exactly
\* {error: "API key not set"}, and requests are issued only with a key.
C4_ShortErrorValue ==
    /\ \A k \in 1..Len(search_log) :
          ~KeyPresent(search_log[k].api_key) =>
              search_log[k].result = [error |-> "API key not set"]
    /\ Len(requests_log) = Cardinality(KeyedCalls)

\* C4, amended: for every query, a search with the key unset (None or empty)
\* returns exactly {error: "API key not set. Please retrieve one at
\* https://www.steamgriddb.com/profile/preferences/api"} and issues no request;
\* every request issued carries a non-empty key.
C4_NoKeyNoRequest ==
    /\ \A k \in 1..Len(search_log) :
          ~KeyPresent(search_log[k].api_key) =>
              search_log[k].result =
                  [error |-> "API key not set. Please retrieve one at https://www.steamgriddb.com/profile/preferences/api"]
    /\ Len(requests_log) = Cardinality(KeyedCalls)
    /\ \A n \in 1..Len(requests_log) : KeyPresent(requests_log[n].headers.Authorization[2])

\* the empty query was searched with the key None, and again with the key "" left
\* by saving a blank key, and nothing was requested
C4_Witness ==
    /\ Len(search_log) = 2
    /\ search_log[1].game_name = <<>> /\ search_log[1].api_key = None
    /\ search_log[2].game_name = <<>> /\ search_log[2].api_key = <<>>
    /\ "error" \in DOMAIN search_log[2].result
    /\ requests_log = <<>>

\* the query as it must appear in the URL
Escaped(game_name) ==
    IF game_name = <<"m", "y", " ", "g", "a", "m", "e">>
    THEN <<"m", "y", "%", "2", "0", "g", "a", "m", "e">>
    ELSE game_name

\* C5: with a key, each search issues exactly one GET, for that query with that
\* key, whatever was searched before; it returns the JSON body on a 200, {error:
\* "API request failed: c"} on any other status c, and {error: "Request failed:
\* m"} when the request or the parsing raised m, and raises nothing itself.
C5_OneRequestPerSearch ==
    /\ Len(requests_log) = Cardinality(KeyedCalls)
    /\ \A k \in KeyedCalls :
          LET call == search_log[k]
              request == requests_log[Cardinality({j \in KeyedCalls : j <= k})]
              outcome == call.outcome
          IN  /\ request.method = "GET"
              /\ request.url = <<"https://www.steamgriddb.com/api/v2", "/search/autocomplete/",
                                 Escaped(call.game_name)>>
              /\ request.headers.Authorization = <<"Bearer ", call.api_key>>
              /\ "exception" \in DOMAIN outcome =>
                    call.result = [error |-> "Request failed: " \o outcome.exception]
              /\ "status_code" \in DOMAIN outcome =>
                    IF outcome.status_code # 200
                    THEN call.result = [error |-> "API request failed: " \o ToString(outcome.status_code)]
                    ELSE IF "json" \in DOMAIN outcome
                         THEN call.result = outcome.json
                         ELSE call.result = [error |-> "Request failed: " \o outcome.json_error]

\* the same query was searched twice with the same key, the first search got a
\* 404 and the second a 200 with a body, and two requests were issued
C5_Witness ==
    /\ Len(search_log) = 2
    /\ search_log[1].game_name = <<"m", "y", " ", "g", "a", "m", "e">>
    /\ search_log[2].game_name = search_log[1].game_name
    /\ search_log[1].api_key = Key /\ search_log[2].api_key = Key
    /\ search_log[1].result = [error |-> "API request failed: 404"]
    /\ search_log[2].result = [data |-> <<[name |-> "Portal 2", id |-> 123]>>]
    /\ Len(requests_log) = 2
    /\ requests_log[1] = requests_log[2]

----------------------------------------------------------------------------
(* The window. *)

\* the names the records of the window's scans can have
WindowNames == {<<"g","a","m","e">>, <<"u","n","i","n">>}

HasRecord(name) ==
    \E i \in 1..Len(found_games) : IsDict(found_games[i]) /\ found_games[i].name = name
LookedUp(name) == \E k \in 1..Len(search_log) : search_log[k].game_name = name

\* C8 as stated: every record of a completed scan eventually gets a lookup.
C8_EveryRecordLookedUp == \A name \in WindowNames : HasRecord(name) ~> LookedUp(name)

\* a step that calls search_game is the selection of an item that stores the
\* index of a record of found_games, looks up the name of that record, calls it
\* once, and is no step of a scan thread or of the delivery of a signal
LookupStep ==
    search_log' # search_log =>
        /\ Len(search_log') = Len(search_log) + 1
        /\ selected' # selected
        /\ selected' \in 1..Len(game_list)
        /\ <<threads', ui_events', found_games', game_list'>>
              = <<threads, ui_events, found_games, game_list>>
        /\ LET item == game_list[selected']
           IN  /\ item.data # NoData
               /\ item.data < Len(found_games)
               /\ IsDict(found_games[item.data + 1])
               /\ search_log'[Len(search_log')].game_name = found_games[item.data + 1].name

\* whatever the earlier lookups returned, another item that stores the index of
\* a record can be selected and looked up
LookupPossible ==
    \A i \in 1..Len(game_list) :
        (/\ i # selected
         /\ Len(search_log) < MaxSearches
         /\ game_list[i].data # NoData
         /\ game_list[i].data < Len(found_games)
         /\ IsDict(found_games[game_list[i].data + 1]))
            => \A outcome \in WindowHttpOutcomes :
                  ENABLED (on_game_selected(i, outcome) /\ search_log' # search_log)

\* C8, amended: the completion of a scan calls search for no record; search is
\* called, once, when the user selects an item whose stored index points to a
\* record of found_games, for the name of that record, in the selection's
\* handler on the UI thread and so never two at a time; and an error result of
\* one lookup does not prevent the lookup of an item selected later.
C8_LookupOnSelection == [][LookupStep]_vars /\ []LookupPossible

\* a scan has completed with two records, the lookup of the first selected item
\* failed and the item selected next was looked up
C8_Witness ==
    /\ Len(found_games) = 2
    /\ Len(search_log) = 2
    /\ "error" \in DOMAIN search_log[1].result
    /\ search_log[1].game_name # search_log[2].game_name
    /\ HasRecord(search_log[1].game_name) /\ HasRecord(search_log[2].game_name)
    /\ selected # 0 /\ game_list[selected].text[1] = search_log[2].game_name

\* C9: at most one scan thread is running at any time.
C9_AtMostOneWorker == Cardinality({t \in 1..Len(threads) : Running(t)}) <= 1

\* C10: every item that stores an index stores one inside found_games, of the
\* record whose name the item shows, and all items come from the scan whose
\* completion was handled last, the one that set found_games.
C10_ListMatchesFoundGames ==
    \A i \in 1..Len(game_list) :
        LET item == game_list[i]
        IN  /\ item.thread = game_list[1].thread
            /\ found_games = threads[item.thread].games
            /\ item.data # NoData =>
                  /\ item.data < Len(found_games)
                  /\ IsDict(found_games[item.data + 1])
                  /\ item.text = <<found_games[item.data + 1].name, " (Local)">>

====
